---- MODULE Spec2Model ----
(***************************************************************************)
(* Model of the optimisation package of the denoising repository:          *)
(*   optimisation/training.py : train, validate, log_images,               *)
(*                              evaluate_psnr_and_vgg_loss                 *)
(*   optimisation/testing.py  : test                                       *)
(* The tensor runtime, the loaders, the meters and the summary writer are  *)
(* collaborators; they are modelled by what the calls made on them do.     *)
(* Left out: the device transfers (args.cuda), the wall-clock batch-time   *)
(* meter, the tqdm progress bar and the prints, none of which feeds back   *)
(* into the model, the meters of the losses or the summary writer; and the *)
(* image-writing loop of test (lines 31-43).  Means are exact rationals.   *)
(* The driver calls train with consecutive epoch numbers 0, 1, 2, ...      *)
(***************************************************************************)
EXTENDS Integers, Sequences, FiniteSets, TLC

VARIABLES
    args,        \* parsed arguments of the run: batch sizes, sample-log count
    pc,          \* position of the single thread of control
    mode,        \* model.training: "train" or "eval"
    params,      \* number of optimizer updates applied to the model parameters
    grads,       \* state of the parameters' gradient buffers
    steps,       \* len(loader) of the running call
    i,           \* batch index of enumerate(loader)
    epoch,       \* epoch argument of train
    training_iters, \* training_iters argument of validate
    batch,       \* the sample of the current iteration: number of images in it
    loss,        \* loss of the current iteration (train)
    loss_meter,  \* AverageValueMeter of train / validate
    psnr_meter,  \* AverageValueMeter of evaluate_psnr_and_vgg_loss
    vgg_loss_meter,
    sink,        \* summary_writer: append-only sequence of written entries
    ret,         \* value returned by the last finished call
    calls,       \* number of calls started by the driver
    fn,          \* function of the running / last finished call
    events,      \* history: operations on model and optimizer in this call
    observed,    \* history: per-batch values fed to the meters in this call
    observed2,   \* history: second series (perceptual loss) of evaluate
    entry,       \* history: mode and params the call found on entry
    trained,     \* driver: number of epochs trained so far
    t            \* state of the test() run of testing.py

vars == <<args, pc, mode, params, grads, steps, i, epoch, training_iters, batch,
          loss, loss_meter, psnr_meter, vgg_loss_meter, sink, ret, calls, fn,
          events, observed, observed2, entry, trained, t>>

trainVars == <<args, pc, mode, params, grads, steps, i, epoch, training_iters,
               batch, loss, loss_meter, psnr_meter, vgg_loss_meter, sink, ret,
               calls, fn, events, observed, observed2, entry, trained>>

(***************************************************************************)
(* Bounds of the model.                                                    *)
(***************************************************************************)
MaxBatches == 2
MaxCalls == 2

LogCounts == {2}    \* values of args.num_samples_to_log
Configs == {<<1, 2>>, <<2, 1>>}    \* <<train_batch_size, test_batch_size>>
LossValues == {1, 3}       \* values of loss.item(), psnr.item(), vgg_loss.item()
TrainingIters == {4}

(***************************************************************************)
(* Exact rationals <<numerator, denominator>>; NaN is <<0, 0>>.            *)
(***************************************************************************)
Abs(x) == IF x < 0 THEN -x ELSE x

RECURSIVE GCD(_, _)
GCD(a, b) == IF b = 0 THEN a ELSE GCD(b, a % b)

NaN == <<0, 0>>

Rat(p, q) == LET g == GCD(Abs(p), q) IN <<p \div g, q \div g>>

RECURSIVE SumSeq(_)
SumSeq(s) == IF s = <<>> THEN 0 ELSE Head(s) + SumSeq(Tail(s))

(***************************************************************************)
(* torchnet AverageValueMeter, as used by training.py: a fresh meter has   *)
(* n = 0 and mean = nan; add(value) keeps the sum and updates the mean     *)
(* incrementally, mean = mean_old + (value - mean_old) / n.                *)
(***************************************************************************)
NewMeter == [n |-> 0, sum |-> 0, mean |-> NaN, mean_old |-> <<0, 1>>]

MeterAdd(m, value) ==
    LET n2 == m.n + 1
        p == m.mean_old[1]
        q == m.mean_old[2]
        mean2 == IF n2 = 1 THEN Rat(m.sum + value, 1)
                 ELSE Rat(p * n2 + (value * q - p), q * n2)
    IN [n |-> n2, sum |-> m.sum + value, mean |-> mean2, mean_old |-> mean2]

(***************************************************************************)
(* The summary writer.  An entry carries what was written (kind, tag,      *)
(* value, step) and, as history, the call and batch index that wrote it.   *)
(* The value of an image entry is the number of samples in the grid.       *)
(***************************************************************************)
Min(a, b) == IF a < b THEN a ELSE b

\* history: the call, the batch index and the batch length at the write
By(n) == [call |-> calls, fn |-> fn, epoch |-> epoch, steps |-> steps, i |-> i,
          n |-> n]

add_scalar(w, tag, value, step, n) ==
    Append(w, [kind |-> "scalar", tag |-> tag, value |-> value, step |-> step,
               by |-> By(n)])

add_image(w, tag, grid, step, n) ==
    Append(w, [kind |-> "image", tag |-> tag, value |-> grid, step |-> step,
               by |-> By(n)])

\* tensor.data[:n_samples] of a batch of n images holds min(n, n_samples) images
Slice(n, n_samples) == Min(n, n_samples)

log_images(n, w, n_samples, iters) ==
    add_image(
      add_image(
        add_image(w, "noisy_images", Slice(n, n_samples), iters, n),
        "denoised_images", Slice(n, n_samples), iters, n),
      "clean_images", Slice(n, n_samples), iters, n)

\* The loader cuts the dataset into batches of the configured size; only the
\* last batch of a pass can hold fewer samples.
BatchLens(batch_size, j, k) == IF j = k - 1 THEN 1..batch_size ELSE {batch_size}

Ev(op, a) == [op |-> op, args |-> a, mode |-> mode]

Fresh == [mode |-> mode, params |-> params]

(***************************************************************************)
(* train(args, train_loader, model, criterion, optimizer, epoch, writer)   *)
(***************************************************************************)
\* mutation: the epoch offset is not scaled by the steps per epoch
TrainStepIndexNoScale(e, s, j) == e + j

TrainStepIndex(e, s, j) == (e * s) + j

\* mutation: the running mean of the meter is logged
TrainScalarValueMean(l, m) == m.mean

TrainScalarValue(l, m) == Rat(l, 1)

\* mutation: the first-batch test is dropped
TrainShouldLogEveryBatch(j, a) == a.train_batch_size >= a.num_samples_to_log

TrainShouldLog(j, a) == j = 0 /\ a.train_batch_size >= a.num_samples_to_log

CallTrain(e, k) ==
    /\ pc = "idle"
    /\ calls < MaxCalls
    /\ e = trained
    /\ trained' = trained + 1
    /\ calls' = calls + 1
    /\ fn' = "train"
    /\ entry' = Fresh
    /\ loss_meter' = NewMeter
    /\ psnr_meter' = NewMeter
    /\ vgg_loss_meter' = NewMeter
    /\ mode' = "train"
    /\ steps' = k
    /\ epoch' = e
    /\ i' = 0
    /\ events' = <<>>
    /\ observed' = <<>>
    /\ observed2' = <<>>
    /\ ret' = <<>>
    /\ pc' = "t_next"
    /\ UNCHANGED <<args, params, grads, training_iters, batch, loss, sink, t>>

TrainNextBatch ==
    /\ pc = "t_next"
    /\ i < steps
    /\ \E n \in BatchLens(args.train_batch_size, i, steps) : batch' = n
    /\ pc' = "t_zero_grad"
    /\ UNCHANGED <<args, mode, params, grads, steps, i, epoch, training_iters,
                   loss, loss_meter, psnr_meter, vgg_loss_meter, sink, ret,
                   calls, fn, events, observed, observed2, entry, trained, t>>

TrainZeroGrad ==
    /\ pc = "t_zero_grad"
    /\ grads' = "zero"
    /\ events' = Append(events, Ev("zero_grad", <<>>))
    /\ pc' = "t_forward"
    /\ UNCHANGED <<args, mode, params, steps, i, epoch, training_iters, batch,
                   loss, loss_meter, psnr_meter, vgg_loss_meter, sink, ret,
                   calls, fn, observed, observed2, entry, trained, t>>

TrainForward ==
    /\ pc = "t_forward"
    /\ events' = Append(events, Ev("forward", <<"noisy", "iso">>))
    /\ pc' = "t_loss"
    /\ UNCHANGED <<args, mode, params, grads, steps, i, epoch, training_iters,
                   batch, loss, loss_meter, psnr_meter, vgg_loss_meter, sink,
                   ret, calls, fn, observed, observed2, entry, trained, t>>

TrainLoss ==
    /\ pc = "t_loss"
    /\ \E v \in LossValues : loss' = v
    /\ events' = Append(events, Ev("criterion", <<"denoised", "clean">>))
    /\ pc' = "t_backward"
    /\ UNCHANGED <<args, mode, params, grads, steps, i, epoch, training_iters,
                   batch, loss_meter, psnr_meter, vgg_loss_meter, sink, ret,
                   calls, fn, observed, observed2, entry, trained, t>>

TrainBackward ==
    /\ pc = "t_backward"
    /\ grads' = "computed"
    /\ events' = Append(events, Ev("backward", <<>>))
    /\ pc' = "t_step"
    /\ UNCHANGED <<args, mode, params, steps, i, epoch, training_iters, batch,
                   loss, loss_meter, psnr_meter, vgg_loss_meter, sink, ret,
                   calls, fn, observed, observed2, entry, trained, t>>

\* mutation: the update is applied every second batch only
TrainOptimizerStepEveryOther ==
    /\ pc = "t_step"
    /\ params' = IF i % 2 = 1 THEN params + 1 ELSE params
    /\ events' = IF i % 2 = 1 THEN Append(events, Ev("step", <<>>)) ELSE events
    /\ pc' = "t_record"
    /\ UNCHANGED <<args, mode, grads, steps, i, epoch, training_iters, batch,
                   loss, loss_meter, psnr_meter, vgg_loss_meter, sink, ret,
                   calls, fn, observed, observed2, entry, trained, t>>

TrainOptimizerStep ==
    /\ pc = "t_step"
    /\ params' = params + 1
    /\ events' = Append(events, Ev("step", <<>>))
    /\ pc' = "t_record"
    /\ UNCHANGED <<args, mode, grads, steps, i, epoch, training_iters, batch,
                   loss, loss_meter, psnr_meter, vgg_loss_meter, sink, ret,
                   calls, fn, observed, observed2, entry, trained, t>>

TrainRecord ==
    /\ pc = "t_record"
    /\ loss_meter' = MeterAdd(loss_meter, loss)
    /\ observed' = Append(observed, loss)
    /\ sink' = add_scalar(
                 IF TrainShouldLog(i, args)
                 THEN log_images(batch, sink, args.num_samples_to_log,
                                 TrainStepIndex(epoch, steps, i))
                 ELSE sink,
                 "Train/Loss", TrainScalarValue(loss, loss_meter'),
                 TrainStepIndex(epoch, steps, i), batch)
    /\ i' = i + 1
    /\ pc' = "t_next"
    /\ UNCHANGED <<args, mode, params, grads, steps, epoch, training_iters,
                   batch, loss, psnr_meter, vgg_loss_meter, ret, calls, fn,
                   events, observed2, entry, trained, t>>

TrainReturn ==
    /\ pc = "t_next"
    /\ i = steps
    /\ ret' = <<loss_meter.mean>>
    /\ batch' = 0
    /\ loss' = 0
    /\ pc' = "idle"
    /\ UNCHANGED <<args, mode, params, grads, steps, i, epoch, training_iters,
                   loss_meter, psnr_meter, vgg_loss_meter, sink, calls, fn,
                   events, observed, observed2, entry, trained, t>>

(***************************************************************************)
(* validate(args, val_loader, model, criterion, training_iters, writer)    *)
(***************************************************************************)
\* mutation: the batch-size threshold is dropped
ValidateShouldLogNoThreshold(j, a) == j = 0

ValidateShouldLog(j, a) == j = 0 /\ a.test_batch_size >= a.num_samples_to_log

ValidateImageStep(iters, j) == iters

\* mutation: the loss meter is not created afresh
CallValidateStaleMeter(iters, k) ==
    /\ pc = "idle"
    /\ calls < MaxCalls
    /\ calls' = calls + 1
    /\ fn' = "validate"
    /\ entry' = Fresh
    /\ loss_meter' = loss_meter
    /\ psnr_meter' = NewMeter
    /\ vgg_loss_meter' = NewMeter
    /\ mode' = "eval"
    /\ steps' = k
    /\ training_iters' = iters
    /\ i' = 0
    /\ events' = <<>>
    /\ observed' = <<>>
    /\ observed2' = <<>>
    /\ ret' = <<>>
    /\ pc' = "v_next"
    /\ UNCHANGED <<args, params, grads, epoch, batch, loss, sink, trained, t>>

CallValidate(iters, k) ==
    /\ pc = "idle"
    /\ calls < MaxCalls
    /\ calls' = calls + 1
    /\ fn' = "validate"
    /\ entry' = Fresh
    /\ loss_meter' = NewMeter
    /\ psnr_meter' = NewMeter
    /\ vgg_loss_meter' = NewMeter
    /\ mode' = "eval"
    /\ steps' = k
    /\ training_iters' = iters
    /\ i' = 0
    /\ events' = <<>>
    /\ observed' = <<>>
    /\ observed2' = <<>>
    /\ ret' = <<>>
    /\ pc' = "v_next"
    /\ UNCHANGED <<args, params, grads, epoch, batch, loss, sink, trained, t>>

\* mutation: the validation loop also updates the weights
ValidateBatchWithUpdate ==
    /\ pc = "v_next"
    /\ i < steps
    /\ \E n \in BatchLens(args.test_batch_size, i, steps), v \in LossValues :
         /\ loss_meter' = MeterAdd(loss_meter, v)
         /\ observed' = Append(observed, v)
         /\ sink' = IF ValidateShouldLog(i, args)
                    THEN log_images(n, sink, args.num_samples_to_log,
                                    ValidateImageStep(training_iters, i))
                    ELSE sink
    /\ events' = events \o <<Ev("forward", <<"noisy", "iso">>),
                             Ev("criterion", <<"denoised", "clean">>)>>
    /\ i' = i + 1
    /\ params' = params + 1
    /\ UNCHANGED <<args, pc, mode, grads, steps, epoch, training_iters,
                   batch, loss, psnr_meter, vgg_loss_meter, ret, calls, fn,
                   observed2, entry, trained, t>>

ValidateBatch ==
    /\ pc = "v_next"
    /\ i < steps
    /\ \E n \in BatchLens(args.test_batch_size, i, steps), v \in LossValues :
         /\ loss_meter' = MeterAdd(loss_meter, v)
         /\ observed' = Append(observed, v)
         /\ sink' = IF ValidateShouldLog(i, args)
                    THEN log_images(n, sink, args.num_samples_to_log,
                                    ValidateImageStep(training_iters, i))
                    ELSE sink
    /\ events' = events \o <<Ev("forward", <<"noisy", "iso">>),
                             Ev("criterion", <<"denoised", "clean">>)>>
    /\ i' = i + 1
    /\ UNCHANGED <<args, pc, mode, params, grads, steps, epoch, training_iters,
                   batch, loss, psnr_meter, vgg_loss_meter, ret, calls, fn,
                   observed2, entry, trained, t>>

ValidateReturn ==
    /\ pc = "v_next"
    /\ i = steps
    /\ sink' = add_scalar(sink, "Test/Loss", loss_meter.mean, training_iters, 0)
    /\ ret' = <<loss_meter.mean>>
    /\ pc' = "idle"
    /\ UNCHANGED <<args, mode, params, grads, steps, i, epoch, training_iters,
                   batch, loss, loss_meter, psnr_meter, vgg_loss_meter, calls,
                   fn, events, observed, observed2, entry, trained, t>>

(***************************************************************************)
(* evaluate_psnr_and_vgg_loss(args, model, data_loader)                    *)
(***************************************************************************)
\* mutation: model.eval() is not called
CallEvaluateKeepMode(k) ==
    /\ pc = "idle"
    /\ calls < MaxCalls
    /\ calls' = calls + 1
    /\ fn' = "evaluate"
    /\ entry' = Fresh
    /\ loss_meter' = NewMeter
    /\ psnr_meter' = NewMeter
    /\ vgg_loss_meter' = NewMeter
    /\ mode' = mode
    /\ steps' = k
    /\ i' = 0
    /\ events' = <<>>
    /\ observed' = <<>>
    /\ observed2' = <<>>
    /\ ret' = <<>>
    /\ pc' = "e_next"
    /\ UNCHANGED <<args, params, grads, epoch, training_iters, batch, loss,
                   sink, trained, t>>

CallEvaluate(k) ==
    /\ pc = "idle"
    /\ calls < MaxCalls
    /\ calls' = calls + 1
    /\ fn' = "evaluate"
    /\ entry' = Fresh
    /\ loss_meter' = NewMeter
    /\ psnr_meter' = NewMeter
    /\ vgg_loss_meter' = NewMeter
    /\ mode' = "eval"
    /\ steps' = k
    /\ i' = 0
    /\ events' = <<>>
    /\ observed' = <<>>
    /\ observed2' = <<>>
    /\ ret' = <<>>
    /\ pc' = "e_next"
    /\ UNCHANGED <<args, params, grads, epoch, training_iters, batch, loss,
                   sink, trained, t>>

EvaluateBatch ==
    /\ pc = "e_next"
    /\ i < steps
    /\ \E psnr \in LossValues, vgg_loss \in LossValues :
         /\ psnr_meter' = MeterAdd(psnr_meter, psnr)
         /\ vgg_loss_meter' = MeterAdd(vgg_loss_meter, vgg_loss)
         /\ observed' = Append(observed, psnr)
         /\ observed2' = Append(observed2, vgg_loss)
    /\ events' = events \o <<Ev("forward", <<"noisy", "iso">>),
                             Ev("psnr", <<"denoised", "clean">>),
                             Ev("vgg_loss", <<"denoised", "clean">>)>>
    /\ i' = i + 1
    /\ UNCHANGED <<args, pc, mode, params, grads, steps, epoch, training_iters,
                   batch, loss, loss_meter, sink, ret, calls, fn, entry,
                   trained, t>>

EvaluateReturn ==
    /\ pc = "e_next"
    /\ i = steps
    /\ ret' = <<psnr_meter.mean, vgg_loss_meter.mean>>
    /\ pc' = "idle"
    /\ UNCHANGED <<args, mode, params, grads, steps, i, epoch, training_iters,
                   batch, loss, loss_meter, psnr_meter, vgg_loss_meter, sink,
                   calls, fn, events, observed, observed2, entry, trained, t>>

(***************************************************************************)
(* test(args, sample_transform) of testing.py, up to model.eval().         *)
(* A file name is the sequence of its "."-separated parts, a path the      *)
(* sequence of its names; a path argument is absolute or relative to the   *)
(* working directory.                                                      *)
(***************************************************************************)
Archs == {"dncnn", "unet"}

ConfigName == <<"denoising", "config">>
BestName == <<"model_best", "pth", "tar">>
OtherName == <<"checkpoint_3", "pth", "tar">>
DotDot == <<"..">>

Cwd == << <<"work">> >>
ExpDir == << <<"work">>, <<"runs">>, <<"exp">> >>

Dirs == { <<>>, Cwd, << <<"work">>, <<"runs">> >>, ExpDir,
          << <<"work">>, <<"out">> >> }

Files == { Append(ExpDir, ConfigName), Append(ExpDir, BestName),
           Append(ExpDir, OtherName) }

is_file(p) == p \in Files

is_dir(p) == p \in Dirs

Parent(p) == IF p = <<>> THEN <<>> ELSE SubSeq(p, 1, Len(p) - 1)

Name(p) == p[Len(p)]

RECURSIVE Normalize(_, _)
Normalize(done, rest) ==
    IF rest = <<>> THEN done
    ELSE IF Head(rest) = DotDot THEN Normalize(Parent(done), Tail(rest))
    ELSE Normalize(Append(done, Head(rest)), Tail(rest))

\* Path(x).resolve()
Resolve(x) == Normalize(<<>>, IF x.abs THEN x.parts ELSE Cwd \o x.parts)

\* lines 11-15: where denoising.config is read from; <<>> when nothing is read
\* mutation: .parent is forgotten for a checkpoint file
ConfigPathNoParent(mp) ==
    IF is_file(mp) \/ is_dir(mp) THEN <<Append(mp, ConfigName)>> ELSE <<>>

ConfigPath(mp) ==
    IF is_file(mp) THEN <<Append(Parent(mp), ConfigName)>>
    ELSE IF is_dir(mp) THEN <<Append(mp, ConfigName)>>
    ELSE <<>>

\* lines 11-15: the checkpoint that will be loaded
WeightsPath(mp) ==
    IF is_file(mp) THEN mp
    ELSE IF is_dir(mp) THEN Append(mp, BestName)
    ELSE mp

\* line 21: model_path.parent / model_path.name.split(".")[0]
DefaultSavePath(model_path) ==
    Append(Parent(model_path), <<Name(model_path)[1]>>)

\* lines 16-21
SavePath(run_on_test, model_path) ==
    IF Len(run_on_test) > 2 THEN Resolve(run_on_test[3])
    ELSE DefaultSavePath(model_path)

\* line 26: the arguments the model is constructed from
ModelCtorArgs(run_args, model_args) == run_args

Rel(parts) == [abs |-> FALSE, parts |-> parts]

AbsPath(parts) == [abs |-> TRUE, parts |-> parts]

CheckpointArgs ==
    { AbsPath(ExpDir),
      Rel(<< <<"runs">>, <<"exp">> >>),
      Rel(<< <<"runs">>, <<"exp">>, OtherName >>),
      AbsPath(Append(ExpDir, BestName)),
      Rel(<< <<"runs">>, DotDot, <<"runs">>, <<"exp">>, BestName >>),
      Rel(<< <<"runs">> >>),
      Rel(<< <<"runs">>, <<"exp">>, <<"missing", "pth">> >>) }

DataArg == Rel(<< <<"data">> >>)

OutArgs == { Rel(<< <<"out">> >>), AbsPath(<< <<"work">>, <<"results">> >>) }

RunOnTestArgs ==
    { <<c, DataArg>> : c \in CheckpointArgs }
      \cup { <<c, DataArg, o>> : c \in CheckpointArgs, o \in OutArgs }

TStart(r, m, stored) ==
    [pc |-> "start", run_on_test |-> r, run_args |-> [model |-> m],
     stored |-> [model |-> stored], resolved |-> <<>>, loads |-> <<>>,
     model_args |-> <<>>, model_path |-> <<>>, save_path |-> <<>>,
     built |-> <<>>, mode |-> "none", error |-> "none"]

\* lines 10-21
TestResolve ==
    /\ t.pc = "start"
    /\ LET mp == Resolve(t.run_on_test[1])
           cfg == ConfigPath(mp)
           missing == cfg # <<>> /\ ~is_file(cfg[1])
       IN t' = IF missing
               THEN [t EXCEPT !.pc = "error", !.resolved = mp, !.loads = cfg,
                              !.error = "FileNotFoundError"]
               ELSE [t EXCEPT !.pc = "resolved", !.resolved = mp,
                              !.loads = cfg,
                              !.model_args = IF cfg = <<>> THEN <<>>
                                             ELSE <<t.stored>>,
                              !.model_path = WeightsPath(mp),
                              !.save_path =
                                  <<SavePath(t.run_on_test, WeightsPath(mp))>>]
    /\ UNCHANGED trainVars

\* lines 23-29
TestLoad ==
    /\ t.pc = "resolved"
    /\ LET ctor == ModelCtorArgs(t.run_args,
                                 IF t.model_args = <<>> THEN t.run_args
                                 ELSE t.model_args[1])
       IN t' = IF ~is_file(t.model_path)
               THEN [t EXCEPT !.pc = "error",
                              !.loads = Append(t.loads, t.model_path),
                              !.error = "FileNotFoundError"]
               ELSE IF ctor.model # t.stored.model
               THEN [t EXCEPT !.pc = "error",
                              !.loads = Append(t.loads, t.model_path),
                              !.built = <<ctor>>,
                              !.error = "load_state_dict"]
               ELSE [t EXCEPT !.pc = "loaded",
                              !.loads = Append(t.loads, t.model_path),
                              !.built = <<ctor>>,
                              !.mode = "eval"]
    /\ UNCHANGED trainVars

(***************************************************************************)
(* The driver: any sequence of train / validate / evaluate calls.          *)
(***************************************************************************)
TOff == [pc |-> "off"]

InitTraining ==
    /\ \E c \in Configs, l \in LogCounts :
         args = [train_batch_size |-> c[1], test_batch_size |-> c[2],
                 num_samples_to_log |-> l]
    /\ pc = "idle"
    /\ mode = "train"
    /\ params = 0
    /\ grads = "none"
    /\ steps = 0
    /\ i = 0
    /\ epoch = 0
    /\ training_iters = 0
    /\ batch = 0
    /\ loss = 0
    /\ loss_meter = NewMeter
    /\ psnr_meter = NewMeter
    /\ vgg_loss_meter = NewMeter
    /\ sink = <<>>
    /\ ret = <<>>
    /\ calls = 0
    /\ fn = "none"
    /\ events = <<>>
    /\ observed = <<>>
    /\ observed2 = <<>>
    /\ entry = [mode |-> "train", params |-> 0]
    /\ trained = 0

Init == InitTraining /\ t = TOff

InitTest ==
    /\ InitTraining
    /\ \E r \in RunOnTestArgs, m \in Archs, stored \in Archs :
         t = TStart(r, m, stored)

Next ==
    \/ \E e \in 0..MaxCalls, k \in 0..MaxBatches : CallTrain(e, k)
    \/ TrainNextBatch
    \/ TrainZeroGrad
    \/ TrainForward
    \/ TrainLoss
    \/ TrainBackward
    \/ TrainOptimizerStep
    \/ TrainRecord
    \/ TrainReturn
    \/ \E it \in TrainingIters, k \in 0..MaxBatches : CallValidate(it, k)
    \/ ValidateBatch
    \/ ValidateReturn
    \/ \E k \in 0..MaxBatches : CallEvaluate(k)
    \/ EvaluateBatch
    \/ EvaluateReturn

Spec == Init /\ [][Next]_vars

NextTest == TestResolve \/ TestLoad

SpecTest == InitTest /\ [][NextTest]_vars

(***************************************************************************)
(* Properties.                                                             *)
(***************************************************************************)
Mean(s) == IF s = <<>> THEN NaN ELSE Rat(SumSeq(s), Len(s))

Idx(w) == 1..Len(w)

\* positions of the sink written by call c
ByCall(c) == {j \in Idx(sink) : sink[j].by.call = c}

Returned(f) == pc = "idle" /\ fn = f

TrainPattern == <<"zero_grad", "forward", "criterion", "backward", "step">>

StepsTaken == Cardinality({j \in Idx(events) : events[j].op = "step"})

\* C1: a call to train over k batches makes one pass; per batch, in this
\* order: gradients cleared, model run on (noisy, iso), loss computed against
\* clean, loss back-propagated, optimizer step applied; k optimizer steps in
\* all, each after its batch's backward and before the next batch's forward.
C1_OnePassInOrder ==
    fn = "train" =>
      /\ \A j \in Idx(events) : events[j].op = TrainPattern[((j - 1) % 5) + 1]
      /\ \A j \in Idx(events) :
           /\ events[j].op = "forward" => events[j].args = <<"noisy", "iso">>
           /\ events[j].op = "criterion" =>
                events[j].args = <<"denoised", "clean">>
      /\ pc \in {"t_next", "idle"} => Len(events) = 5 * i
      /\ params = entry.params + StepsTaken
      /\ pc = "idle" => i = steps /\ StepsTaken = steps

C1_Witness ==
    Returned("train") /\ steps = 2 /\ Len(events) = 10 /\ params = entry.params + 2

\* C2: the value returned by train, validate and evaluate_psnr_and_vgg_loss
\* is the arithmetic mean of exactly the per-batch values observed during
\* that call (nan for a pass over no batch); no value of an earlier call
\* enters it.
C2_ReturnsMeanOfThisPass ==
    pc = "idle" /\ fn # "none" =>
      /\ Len(observed) = steps
      /\ fn \in {"train", "validate"} => ret = <<Mean(observed)>>
      /\ fn = "evaluate" =>
           /\ Len(observed2) = steps
           /\ ret = <<Mean(observed), Mean(observed2)>>

C2_Witness ==
    /\ Returned("validate")
    /\ calls = 2
    /\ entry.params = 2
    /\ observed = <<3, 1>>
    /\ ret = <<(<<2, 1>>)>>

Images(c) == {j \in ByCall(c) : sink[j].kind = "image"}

Scalars(c) == {j \in ByCall(c) : sink[j].kind = "scalar"}

TrainScalar(j) == sink[j].kind = "scalar" /\ sink[j].by.fn = "train"

\* the entry train wrote for the first batch of a call
FirstBatch(j) == TrainScalar(j) /\ sink[j].by.i = 0

\* C3 as claimed: in train, for batches of size N: when N >= the sample-log
\* count, grids of exactly log-count samples are logged on the first batch
\* and nothing on later batches; when N < the sample-log count, no image is
\* logged in that epoch.
C3_AsClaimed ==
    \A f \in Idx(sink) : FirstBatch(f) =>
      LET N == sink[f].by.n
          imgs == Images(sink[f].by.call)
      IN /\ N >= args.num_samples_to_log =>
              /\ Cardinality(imgs) = 3
              /\ \A j \in imgs :
                   /\ sink[j].by.i = 0
                   /\ sink[j].value = args.num_samples_to_log
         /\ N < args.num_samples_to_log => imgs = {}

\* C3 amended: in train, when the configured train batch size is at least the
\* sample-log count, the three grids are logged on the first batch only, each
\* holding min(log count, length of that batch) samples; when the configured
\* train batch size is below the sample-log count nothing is image-logged.
C3_LogsByConfiguredBatchSize ==
    \A f \in Idx(sink) : FirstBatch(f) =>
      LET imgs == Images(sink[f].by.call) IN
      /\ args.train_batch_size >= args.num_samples_to_log =>
           /\ {sink[j].tag : j \in imgs}
                = {"noisy_images", "denoised_images", "clean_images"}
           /\ Cardinality(imgs) = 3
           /\ \A j \in imgs :
                /\ sink[j].by.i = 0
                /\ sink[j].value =
                     IF sink[f].by.n < args.num_samples_to_log
                     THEN sink[f].by.n ELSE args.num_samples_to_log
      /\ args.train_batch_size < args.num_samples_to_log => imgs = {}

C3_Witness ==
    /\ Returned("train")
    /\ steps = 2
    /\ args.train_batch_size >= args.num_samples_to_log
    /\ Cardinality(Images(calls)) = 3
    /\ Cardinality(Scalars(calls)) = 2

\* C4: every entry train writes while processing batch i of epoch e carries
\* step e * steps_per_epoch + i, one scalar entry per batch; over train calls
\* of increasing epoch with the same steps_per_epoch the scalar steps strictly
\* increase and never repeat.
C4_StepIndex ==
    /\ \A j \in Idx(sink) :
         sink[j].by.fn = "train" =>
           sink[j].step = sink[j].by.epoch * sink[j].by.steps + sink[j].by.i
    \* one scalar entry per batch, in batch order
    /\ \A j \in Idx(sink) : TrainScalar(j) =>
         /\ sink[j].by.i > 0 =>
              /\ TrainScalar(j - 1)
              /\ sink[j - 1].by.call = sink[j].by.call
              /\ sink[j - 1].by.i = sink[j].by.i - 1
         /\ sink[j].by.i = 0 /\ j > 1 /\ sink[j - 1].by.call = sink[j].by.call
              => sink[j - 1].kind = "image"
         /\ sink[j].by.i < sink[j].by.steps
         /\ sink[j].by.call < calls \/ pc = "idle" =>
              \E l \in j..Len(sink) :
                /\ TrainScalar(l)
                /\ sink[l].by.call = sink[j].by.call
                /\ sink[l].by.i = sink[l].by.steps - 1
    /\ fn = "train" =>
         /\ i = 0 => ByCall(calls) = {}
         /\ i > 0 => /\ TrainScalar(Len(sink))
                     /\ sink[Len(sink)].by.call = calls
                     /\ sink[Len(sink)].by.i = i - 1
    \* later epochs write larger steps
    /\ \A a \in Idx(sink) : TrainScalar(a) =>
         \A b \in (a + 1)..Len(sink) :
           /\ TrainScalar(b)
           /\ sink[a].by.steps = sink[b].by.steps
           /\ \/ sink[a].by.call = sink[b].by.call
              \/ sink[a].by.epoch < sink[b].by.epoch
           => sink[a].step < sink[b].step

C4_Witness ==
    /\ Returned("train")
    /\ calls = 2
    /\ Len(sink) >= 4
    /\ \E a, b \in Idx(sink) :
         /\ sink[a].by.call = 1 /\ sink[a].by.epoch = 0 /\ sink[a].step = 1
         /\ sink[a].kind = "scalar" /\ sink[a].by.fn = "train"
         /\ sink[b].by.call = 2 /\ sink[b].by.epoch = 1 /\ sink[b].step = 3
         /\ sink[b].kind = "scalar"

\* C5: a call to validate writes exactly one scalar entry, after the last
\* batch, tagged 'Test/Loss', at step training_iters, valued the mean of the
\* pass's batch losses; image grids are written only on the first batch, at
\* that same step, and none when the test batch size is below the sample-log
\* count.
C5_ValidateLogging ==
    fn = "validate" =>
      /\ pc = "v_next" => Scalars(calls) = {}
      /\ pc = "idle" =>
           /\ Scalars(calls) = {Len(sink)}
           /\ sink[Len(sink)].tag = "Test/Loss"
           /\ sink[Len(sink)].step = training_iters
           /\ sink[Len(sink)].value = Mean(observed)
           /\ sink[Len(sink)].by.i = steps
      /\ \A j \in Images(calls) :
           sink[j].by.i = 0 /\ sink[j].step = training_iters
      /\ args.test_batch_size < args.num_samples_to_log => Images(calls) = {}
      /\ i > 0 /\ args.test_batch_size >= args.num_samples_to_log =>
           Cardinality(Images(calls)) = 3

C5_Witness ==
    /\ Returned("validate")
    /\ steps = 2
    /\ args.test_batch_size < args.num_samples_to_log
    /\ observed = <<1, 3>>
    /\ ByCall(calls) = {Len(sink)}
    /\ sink[Len(sink)].value = <<2, 1>>

\* C6: validate and evaluate_psnr_and_vgg_loss perform no backward pass and
\* no optimizer step; the parameters after the call equal those before it.
C6_EvalLeavesParameters ==
    fn \in {"validate", "evaluate"} =>
      /\ params = entry.params
      /\ \A j \in Idx(events) :
           events[j].op \notin {"zero_grad", "backward", "step"}

C6_Witness ==
    /\ Returned("evaluate")
    /\ steps = 2
    /\ entry.params = 2
    /\ params = 2
    /\ Len(events) = 6

Front(p) == SubSeq(p, 1, Len(p) - 1)

Last(p) == p[Len(p)]

\* C7: test resolves the checkpoint layout: for an existing file, the
\* configuration is read from denoising.config in the file's directory and
\* the weights from the file; for an existing directory, from
\* <dir>/denoising.config and <dir>/model_best.pth.tar; without an output
\* directory argument the output directory is the sibling of the checkpoint
\* file named after the file's base name.
C7_CheckpointLayout ==
    t.pc \notin {"off", "start"} =>
      /\ t.resolved \in Files =>
           /\ t.loads # <<>>
           /\ t.loads[1] = Front(t.resolved) \o << <<"denoising", "config">> >>
           /\ t.pc \in {"resolved", "loaded"} => t.model_path = t.resolved
      /\ t.resolved \in Dirs =>
           /\ t.loads # <<>>
           /\ t.loads[1] = t.resolved \o << <<"denoising", "config">> >>
           /\ t.pc \in {"resolved", "loaded"} =>
                t.model_path
                  = t.resolved \o << <<"model_best", "pth", "tar">> >>
      /\ t.pc = "loaded" => Len(t.loads) = 2 /\ t.loads[2] = t.model_path
      /\ t.pc \in {"resolved", "loaded"} /\ Len(t.run_on_test) = 2 =>
           t.save_path
             = << Front(t.model_path) \o << <<Last(t.model_path)[1]>> >> >>

C7_Witness ==
    /\ t.pc = "loaded"
    /\ Len(t.run_on_test) = 2
    /\ ~t.run_on_test[1].abs
    /\ t.resolved = ExpDir \o <<OtherName>>
    /\ t.loads = <<ExpDir \o <<ConfigName>>, ExpDir \o <<OtherName>> >>
    /\ t.save_path = <<ExpDir \o << <<"checkpoint_3">> >> >>

\* C8 as claimed: the scalar train writes for each batch is the running mean
\* of the losses of the batches seen so far in the pass, at step
\* epoch * steps_per_epoch + batch_index.
C8_AsClaimed ==
    fn = "train" /\ pc = "t_next" /\ i > 0 =>
      /\ sink[Len(sink)].tag = "Train/Loss"
      /\ sink[Len(sink)].value = Mean(observed)
      /\ sink[Len(sink)].step = epoch * steps + (i - 1)

\* C8 amended: the scalar train writes for each batch is the loss of that
\* single batch, at step epoch * steps_per_epoch + batch_index.
C8_LogsBatchLoss ==
    fn = "train" /\ pc = "t_next" /\ i > 0 =>
      /\ sink[Len(sink)].kind = "scalar"
      /\ sink[Len(sink)].tag = "Train/Loss"
      /\ sink[Len(sink)].value = <<observed[i], 1>>
      /\ sink[Len(sink)].step = epoch * steps + (i - 1)

C8_Witness ==
    /\ fn = "train" /\ pc = "t_next" /\ i = 2
    /\ observed = <<1, 3>>
    /\ loss_meter.mean = <<2, 1>>
    /\ sink[Len(sink)].value = <<3, 1>>

\* C9: in test, the model that receives the saved parameters is instantiated
\* from the configuration loaded from the checkpoint's denoising.config, not
\* from the arguments of the current run.
C9_BuiltFromStoredConfig ==
    t.pc \notin {"off", "start"} /\ t.built # <<>> /\ t.model_args # <<>> =>
      t.built = t.model_args

\* C10: every forward pass inside train runs in train mode and every forward
\* pass inside validate or evaluate_psnr_and_vgg_loss runs in eval mode,
\* whatever mode the previous call left; on return the mode is the one the
\* call set.
ModeOf(f) == IF f = "train" THEN "train" ELSE "eval"

C10_ModePerCall ==
    fn # "none" =>
      /\ \A j \in Idx(events) :
           events[j].op = "forward" => events[j].mode = ModeOf(fn)
      /\ pc = "idle" => mode = ModeOf(fn)

C10_Witness ==
    /\ Returned("validate")
    /\ entry.mode = "train"
    /\ steps = 2
    /\ \E j \in Idx(events) : events[j].op = "forward" /\ events[j].mode = "eval"

====
